---- MODULE Spec2Model ----
(***************************************************************************)
(* clh: the configuration resolution of src/cli/root.go (package init,     *)
(* viperFirstPhase, cobraSecondPhase, viperSecondPhase, setLogLevel) and    *)
(* the commands use-context and config that persist it, together with the  *)
(* parts of viper, pflag, logrus and yaml.v2 those lines rely on.           *)
(*                                                                         *)
(* A key of the store is a pair <<namespace, name>>: <<"", "log_level">>    *)
(* is the global key log_level, <<"a", "endpoint">> the key a.endpoint.     *)
(* A file is a sequence of lines <<key, value>>; a file offset counts       *)
(* lines.                                                                   *)
(***************************************************************************)
EXTENDS Integers, Sequences, FiniteSets, TLC

VARIABLES
    fs,       \* path -> lines: the files on disk
    dirs,     \* the directories that exist
    env,      \* environment variable name -> value
    proc,     \* per process: its position, argv, Go package variables, logrus level
    viper,    \* per process: the viper singleton
    inv,      \* number of invocations started so far
    fs0,      \* history: the files as they were when the running invocation(s) started
    last,     \* history: what the previous invocation was and resolved
    overlap   \* history: a file step ran between another process's truncate and write

vars == <<fs, dirs, env, proc, viper, inv, fs0, last, overlap>>

-----------------------------------------------------------------------------
(* Bounds *)

\* invocations run one after another under Spec
MaxInv == 2

-----------------------------------------------------------------------------
(* Vocabulary *)

Nil == "<nil>"

\* maps hold only the keys that have a value
Empty == [k \in {} |-> Nil]
Get(m, k) == IF k \in DOMAIN m THEN m[k] ELSE Nil
Put(m, k, v) == [x \in DOMAIN m \cup {k} |-> IF x = k THEN v ELSE m[x]]

Contexts == {"default", "a", "b", "c", "d"}
Fields == {"endpoint", "username", "secret_key"}
GlobalNames == {"log_level", "config", "context"}

Key(ns, name) == <<ns, name>>
GlobalKey(name) == <<"", name>>
GlobalKeys == {GlobalKey(n) : n \in GlobalNames}
ScopedKeys == {Key(c, f) : c \in Contexts, f \in Fields}
Keys == GlobalKeys \cup ScopedKeys

\* a line no YAML parser accepts
BadKey == <<"", "%garbage">>

HomeDir == "/home/u"
EtcPath == "/etc/clh/config.yaml"
HomePath == HomeDir \o "/.clh/config.yaml"
CwdPath == "./.clh/config.yaml"
CustomPath == "custom.yaml"
EnvPath == "env.yaml"
FilePath == "file.yaml"

DefaultEndpoint == "https://api.cloudlethub.com/"

\* viper.AddConfigPath order, with SetConfigName("config") and type yaml
SearchPaths == <<EtcPath, HomePath, CwdPath>>

TestPath(path) == path \o ".test.yaml"

ParentDir(path) ==
    CASE path \in {EtcPath, TestPath(EtcPath)} -> "/etc/clh"
      [] path \in {HomePath, TestPath(HomePath)} -> HomeDir \o "/.clh"
      [] path \in {CwdPath, TestPath(CwdPath)} -> "./.clh"
      [] OTHER -> "."

Exists(path) == path \in DOMAIN fs

-----------------------------------------------------------------------------
(* yaml.v2 *)

\* yaml.Marshal writes a map's keys in sorted order
KeySeq ==
    << Key("a", "endpoint"), Key("a", "secret_key"), Key("a", "username"),
       Key("b", "endpoint"), Key("b", "secret_key"), Key("b", "username"),
       Key("c", "endpoint"), Key("c", "secret_key"), Key("c", "username"),
       GlobalKey("config"), GlobalKey("context"),
       Key("d", "endpoint"), Key("d", "secret_key"), Key("d", "username"),
       Key("default", "endpoint"), Key("default", "secret_key"),
       Key("default", "username"),
       GlobalKey("log_level") >>

Marshal(m) ==
    LET Has(k) == k \in DOMAIN m
        sel == SelectSeq(KeySeq, Has)
    IN  [i \in 1..Len(sel) |-> <<sel[i], m[sel[i]]>>]

Parseable(lines) == \A i \in 1..Len(lines) : lines[i][1] # BadKey

\* yaml.Unmarshal into a map: a key given twice keeps its last value
Unmarshal(lines) ==
    [k \in {lines[i][1] : i \in 1..Len(lines)} |->
        LET at == {i \in 1..Len(lines) : lines[i][1] = k}
        IN  lines[CHOOSE i \in at : \A j \in at : j <= i][2]]

-----------------------------------------------------------------------------
(* logrus *)

Levels == {"PanicLevel", "FatalLevel", "ErrorLevel", "WarnLevel", "InfoLevel",
           "DebugLevel"}

LevelNames == {"panic", "fatal", "error", "warn", "warning", "info", "debug"}

\* log.ParseLevel: [ok, level]
ParseLevel(s) ==
    CASE s = "panic" -> [ok |-> TRUE, level |-> "PanicLevel"]
      [] s = "fatal" -> [ok |-> TRUE, level |-> "FatalLevel"]
      [] s = "error" -> [ok |-> TRUE, level |-> "ErrorLevel"]
      [] s \in {"warn", "warning"} -> [ok |-> TRUE, level |-> "WarnLevel"]
      [] s = "info" -> [ok |-> TRUE, level |-> "InfoLevel"]
      [] s = "debug" -> [ok |-> TRUE, level |-> "DebugLevel"]
      [] OTHER -> [ok |-> FALSE, level |-> "PanicLevel"]

-----------------------------------------------------------------------------
(* Environment *)

UpperWord(w) ==
    CASE w = "log_level" -> "LOG_LEVEL"
      [] w = "config" -> "CONFIG"
      [] w = "context" -> "CONTEXT"
      [] w = "endpoint" -> "ENDPOINT"
      [] w = "username" -> "USERNAME"
      [] w = "secret_key" -> "SECRET_KEY"
      [] w = "default" -> "DEFAULT"
      [] w = "a" -> "A"
      [] w = "b" -> "B"
      [] w = "c" -> "C"
      [] w = "d" -> "D"
      [] OTHER -> w

\* viper.mergeWithEnvPrefix under SetEnvPrefix("CLH"): no key replacer is set,
\* so the dot of a nested key stays in the variable's name
EnvName(key) ==
    "CLH_" \o (IF key[1] = "" THEN UpperWord(key[2])
               ELSE UpperWord(key[1]) \o "." \o UpperWord(key[2]))

\* os.Getenv: "" for a variable that is not set
Getenv(name) == IF name \in DOMAIN env THEN env[name] ELSE ""

-----------------------------------------------------------------------------
(* pflag and viper *)

FlagNames == {"log_level", "config", "context", "endpoint", "username",
              "secret_key"}

NoFlags == Empty

\* the viper singleton after init() lines 110-119: three flags bound, two
\* defaults set
InitViper ==
    [ automaticEnv |-> FALSE,
      config |-> Empty,
      configFile |-> "",
      defaults |-> GlobalKey("log_level") :> "info"
                   @@ GlobalKey("context") :> "default",
      pflags |-> GlobalKey("log_level") :> "log_level"
                 @@ GlobalKey("config") :> "config"
                 @@ GlobalKey("context") :> "context" ]

\* a process that is not running; logrus starts at InfoLevel
IdleProc ==
    [ pc |-> "idle", cmd |-> "", arg |-> Nil, flags |-> NoFlags,
      changed |-> {}, cfgFile |-> "", context |-> "",
      level |-> "InfoLevel", errLogged |-> FALSE, exit |-> "none",
      fileName |-> "", marshal |-> <<>> ]

\* viper.find with the config files consulted before the environment
FindEnvBelowFile(v, pr, key) ==
    LET fl == Get(v.pflags, key)
    IN  IF fl # Nil /\ fl \in pr.changed THEN pr.flags[fl]
        ELSE IF key \in DOMAIN v.config THEN v.config[key]
        ELSE IF v.automaticEnv /\ Getenv(EnvName(key)) # "" THEN Getenv(EnvName(key))
        ELSE IF key \in DOMAIN v.defaults THEN v.defaults[key]
        ELSE IF fl # Nil THEN ""
        ELSE Nil

\* viper.find: a changed bound flag, then the environment, then the merged
\* config files, then the defaults, then a bound flag's default value ("")
Find(v, pr, key) ==
    LET fl == Get(v.pflags, key)
    IN  IF fl # Nil /\ fl \in pr.changed THEN pr.flags[fl]
        ELSE IF v.automaticEnv /\ Getenv(EnvName(key)) # "" THEN Getenv(EnvName(key))
        ELSE IF key \in DOMAIN v.config THEN v.config[key]
        ELSE IF key \in DOMAIN v.defaults THEN v.defaults[key]
        ELSE IF fl # Nil THEN ""
        ELSE Nil

\* viper.GetString: cast.ToString of what find returns, "" for nil
GetString(v, pr, key) ==
    IF Find(v, pr, key) = Nil THEN "" ELSE Find(v, pr, key)

\* viper.AllKeys: the bound flags, the config files' keys and the defaults;
\* a key that only AutomaticEnv can answer is not among them
AllKeys(v) == DOMAIN v.pflags \cup DOMAIN v.config \cup DOMAIN v.defaults

\* viper.AllSettings: Get of every key of AllKeys, nil values skipped
AllSettings(v, pr) ==
    [k \in {x \in AllKeys(v) : Find(v, pr, x) # Nil} |-> Find(v, pr, k)]

\* viper.mergeMaps: the source's values replace the target's
MergeMaps(src, tgt) ==
    [k \in DOMAIN src \cup DOMAIN tgt |-> IF k \in DOMAIN src THEN src[k] ELSE tgt[k]]

\* viper.findConfigFile: the first search directory that holds the file
FindConfigFile ==
    LET found == {i \in 1..Len(SearchPaths) : Exists(SearchPaths[i])}
    IN  IF found = {} THEN ""
        ELSE SearchPaths[CHOOSE i \in found : \A j \in found : i <= j]

\* viper.getConfigFile: the file already in use, else the one found now
GetConfigFile(v) == IF v.configFile # "" THEN v.configFile ELSE FindConfigFile

\* viper.MergeInConfig: read the config file and merge it over v.config; a
\* file that is missing or does not parse leaves v.config as it was
MergeInConfig(v) ==
    LET f == GetConfigFile(v)
        v1 == [v EXCEPT !.configFile = f]
    IN  IF f = "" THEN v
        ELSE IF Exists(f) /\ Parseable(fs[f])
             THEN [v1 EXCEPT !.config = MergeMaps(Unmarshal(fs[f]), v.config)]
             ELSE v1

\* setLogLevel falling back to InfoLevel
SetLogLevelInfo(v, pr) ==
    LET r == ParseLevel(GetString(v, pr, GlobalKey("log_level")))
    IN  [pr EXCEPT !.level = IF r.ok THEN r.level ELSE "InfoLevel",
                   !.errLogged = ~r.ok /\ pr.level \notin {"PanicLevel", "FatalLevel"}]

\* setLogLevel: the level log_level names, DebugLevel when it names none; the
\* error diagnostic goes through the logger as it stands before the new
\* level is set, so PanicLevel and FatalLevel swallow it
SetLogLevel(v, pr) ==
    LET r == ParseLevel(GetString(v, pr, GlobalKey("log_level")))
    IN  [pr EXCEPT !.level = IF r.ok THEN r.level ELSE "DebugLevel",
                   !.errLogged = ~r.ok /\ pr.level \notin {"PanicLevel", "FatalLevel"}]

-----------------------------------------------------------------------------
(* Inputs: the files, the environment and the command lines tried *)

HomeFile ==
    << <<GlobalKey("context"), "d">>,
       <<GlobalKey("log_level"), "fatal">>,
       <<Key("a", "endpoint"), "https://home-a">>,
       <<Key("a", "username"), "alice">>,
       <<Key("a", "secret_key"), "ka-home">>,
       <<Key("b", "endpoint"), "https://home-b">>,
       <<Key("c", "secret_key"), "kc-home">>,
       <<Key("d", "endpoint"), "https://home-d">>,
       <<Key("d", "username"), "dora">> >>

EtcFile ==
    << <<GlobalKey("log_level"), "bogus">>,
       <<Key("a", "endpoint"), "https://etc-a">>,
       <<Key("b", "secret_key"), "kb-etc">> >>

CwdFile ==
    << <<GlobalKey("config"), FilePath>>,
       <<GlobalKey("context"), "d">>,
       <<Key("d", "endpoint"), "https://cwd-d">> >>

OtherFile ==
    << <<Key("d", "secret_key"), "kd-other">>,
       <<GlobalKey("context"), "c">> >>

CustomFile ==
    << <<Key("a", "endpoint"), "https://custom-a">>,
       <<Key("a", "secret_key"), "ka-custom">>,
       <<Key("b", "endpoint"), "https://custom-b">>,
       <<Key("c", "endpoint"), "https://custom-c">>,
       <<GlobalKey("context"), "c">>,
       <<GlobalKey("log_level"), "bogus">> >>

GarbageFile == << <<BadKey, "">> >>

\* the layouts of the disk an invocation may find
Layouts ==
    { [files |-> Empty, dirs |-> {".", "/etc/clh"}],
      [files |-> Empty, dirs |-> {".", "/etc/clh", ParentDir(HomePath)}],
      [files |-> HomePath :> HomeFile @@ CustomPath :> CustomFile,
       dirs |-> {".", "/etc/clh", ParentDir(HomePath)}],
      [files |-> EtcPath :> EtcFile @@ HomePath :> HomeFile
                 @@ CustomPath :> CustomFile,
       dirs |-> {".", "/etc/clh", ParentDir(HomePath)}],
      [files |-> CwdPath :> CwdFile @@ FilePath :> OtherFile,
       dirs |-> {".", "/etc/clh", ParentDir(CwdPath)}],
      [files |-> HomePath :> GarbageFile @@ CustomPath :> CustomFile,
       dirs |-> {".", "/etc/clh", ParentDir(HomePath)}] }

NoEnv == Empty

EnvSome ==
    EnvName(GlobalKey("log_level")) :> "warning"
    @@ EnvName(Key("a", "endpoint")) :> "https://env-a"
    @@ EnvName(Key("a", "secret_key")) :> "ka-env"
    @@ EnvName(Key("c", "endpoint")) :> "https://env-c"
    @@ EnvName(Key("d", "endpoint")) :> "https://env-d"
    @@ EnvName(Key("default", "secret_key")) :> "k-env"

EnvAll ==
    EnvSome
    @@ EnvName(GlobalKey("context")) :> "b"
    @@ EnvName(GlobalKey("config")) :> EnvPath
    @@ EnvName(Key("b", "endpoint")) :> "https://env-b"
    @@ EnvName(Key("b", "secret_key")) :> "kb-env"

EnvBogus == EnvName(GlobalKey("log_level")) :> "bogus"

Environments == {NoEnv, EnvSome, EnvAll, EnvBogus}

\* the root command's persistent flags
GlobalFlagChoices ==
    { NoFlags,
      "log_level" :> "bogus" @@ "context" :> "a",
      "config" :> CustomPath,
      "log_level" :> "error" @@ "context" :> "a" @@ "config" :> CustomPath }

\* the config command's own flags
ConfigFlagChoices ==
    { NoFlags,
      "endpoint" :> "https://x" @@ "username" :> "bob" @@ "secret_key" :> "secret" }

\* the subcommand, its positional argument and its own flags
CommandLines ==
    {[cmd |-> c, arg |-> Nil, flags |-> NoFlags] : c \in {"", "version"}}
    \cup {[cmd |-> "use-context", arg |-> a, flags |-> NoFlags] : a \in {Nil, "a"}}
    \cup {[cmd |-> "config", arg |-> Nil, flags |-> f] : f \in ConfigFlagChoices}

NoLast ==
    [cmd |-> "", arg |-> Nil, exit |-> "none", context |-> "", settings |-> Empty]

-----------------------------------------------------------------------------
(* The state machine *)

Init ==
    /\ \E l \in Layouts : fs = l.files /\ dirs = l.dirs
    /\ env \in Environments
    /\ proc = [p \in {1} |-> IdleProc]
    /\ viper = [p \in {1} |-> InitViper]
    /\ inv = 0
    /\ fs0 = fs
    /\ last = NoLast
    /\ overlap = FALSE

\* between OpenFile(O_TRUNC) and WriteString of use-context
InWindow(q) == proc[q].pc = "ucOpened"

\* what a step of p that touches the disk does to the history
FileStep(p) == overlap' = (overlap \/ \E q \in DOMAIN proc \ {p} : InWindow(q))

\* the shell starts clh: argv is fixed and init() has bound the root flags
Launch(p, g, c) ==
    /\ proc[p].pc = "idle"
    /\ proc' = [proc EXCEPT ![p] =
           [IdleProc EXCEPT !.pc = "init", !.cmd = c.cmd, !.arg = c.arg,
                            !.flags = c.flags @@ g,
                            !.exit = "running"]]
    /\ viper' = [viper EXCEPT ![p] = InitViper]
    /\ inv' = inv + 1
    /\ fs0' = fs
    /\ UNCHANGED <<fs, dirs, env, last, overlap>>

\* viperFirstPhase, lines 147-151: AutomaticEnv, then the first setLogLevel
ViperFirstPhaseEnv(p) ==
    /\ proc[p].pc = "init"
    /\ LET v1 == [viper[p] EXCEPT !.automaticEnv = TRUE]
       IN  /\ viper' = [viper EXCEPT ![p] = v1]
           /\ proc' = [proc EXCEPT ![p] =
                  [SetLogLevel(v1, proc[p]) EXCEPT !.pc = "envBound"]]
    /\ UNCHANGED <<fs, dirs, env, inv, fs0, last, overlap>>

\* viperFirstPhase, lines 153-171: the search path, MergeInConfig, then the
\* second setLogLevel
ViperFirstPhaseFiles(p) ==
    /\ proc[p].pc = "envBound"
    /\ LET v1 == MergeInConfig(viper[p])
       IN  /\ viper' = [viper EXCEPT ![p] = v1]
           /\ proc' = [proc EXCEPT ![p] =
                  [SetLogLevel(v1, proc[p]) EXCEPT !.pc = "filesMerged"]]
    /\ FileStep(p)
    /\ UNCHANGED <<fs, dirs, env, inv, fs0, last>>

\* main: SetLevel(InfoLevel), then Execute, where cobra parses the flags into
\* cfgFile and context and marks the given ones changed
Main(p) ==
    /\ proc[p].pc = "filesMerged"
    /\ LET fl == proc[p].flags
       IN  proc' = [proc EXCEPT ![p] =
               [@ EXCEPT !.pc = "flagsParsed",
                         !.level = "InfoLevel",
                         !.changed = DOMAIN fl,
                         !.cfgFile = IF "config" \in DOMAIN fl THEN fl["config"] ELSE "",
                         !.context = IF "context" \in DOMAIN fl THEN fl["context"] ELSE ""]]
    /\ UNCHANGED <<fs, dirs, env, viper, inv, fs0, last, overlap>>

\* cobraSecondPhase, line 176: the third setLogLevel
CobraSecondPhaseFlags(p) ==
    /\ proc[p].pc = "flagsParsed"
    /\ proc' = [proc EXCEPT ![p] =
           [SetLogLevel(viper[p], proc[p]) EXCEPT !.pc = "flagsLevel"]]
    /\ UNCHANGED <<fs, dirs, env, viper, inv, fs0, last, overlap>>

\* cobraSecondPhase, lines 178-187: SetConfigFile for --config, MergeInConfig,
\* then the fourth setLogLevel
CobraSecondPhaseFile(p) ==
    /\ proc[p].pc = "flagsLevel"
    /\ LET v1 == IF proc[p].cfgFile # ""
                 THEN [viper[p] EXCEPT !.configFile = proc[p].cfgFile]
                 ELSE viper[p]
           v2 == MergeInConfig(v1)
       IN  /\ viper' = [viper EXCEPT ![p] = v2]
           /\ proc' = [proc EXCEPT ![p] =
                  [SetLogLevel(v2, proc[p]) EXCEPT !.pc = "explicitMerged"]]
    /\ FileStep(p)
    /\ UNCHANGED <<fs, dirs, env, inv, fs0, last>>

\* the context taken to be "default" whatever is configured
ResolveContextDefault(v, pr) == "default"

\* cobraSecondPhase, lines 189-191: the context, unless --context gave it
ResolveContext(v, pr) ==
    IF pr.context = "" THEN GetString(v, pr, GlobalKey("context")) ELSE pr.context

CobraSecondPhaseContext(p) ==
    /\ proc[p].pc = "explicitMerged"
    /\ proc' = [proc EXCEPT ![p] =
           [@ EXCEPT !.pc = "contextResolved",
                     !.context = ResolveContext(viper[p], proc[p])]]
    /\ UNCHANGED <<fs, dirs, env, viper, inv, fs0, last, overlap>>

\* viperSecondPhase: the default of config, and the endpoint and secret_key
\* flags bound under the context (username is bound nowhere)
BindUnder(v, ctx) ==
    [v EXCEPT !.defaults =
                  Put(Put(@, GlobalKey("config"),
                          IF v.configFile # "" THEN v.configFile ELSE HomePath),
                      Key(ctx, "endpoint"), DefaultEndpoint),
              !.pflags =
                  Put(Put(@, Key(ctx, "endpoint"), "endpoint"),
                      Key(ctx, "secret_key"), "secret_key")]

ViperSecondPhase(p) ==
    /\ proc[p].pc = "contextResolved"
    /\ viper' = [viper EXCEPT ![p] = BindUnder(viper[p], proc[p].context)]
    /\ proc' = [proc EXCEPT ![p] = [@ EXCEPT !.pc = "bound"]]
    /\ UNCHANGED <<fs, dirs, env, inv, fs0, last, overlap>>

\* rootCli.Run: the help text, then os.Exit(1)
RootRun(p) ==
    /\ proc[p].pc = "bound"
    /\ proc[p].cmd = ""
    /\ proc' = [proc EXCEPT ![p] = [@ EXCEPT !.pc = "done", !.exit = "exit1"]]
    /\ UNCHANGED <<fs, dirs, env, viper, inv, fs0, last, overlap>>

\* versionCli.Run: the version line
VersionRun(p) ==
    /\ proc[p].pc = "bound"
    /\ proc[p].cmd = "version"
    /\ proc' = [proc EXCEPT ![p] = [@ EXCEPT !.pc = "done", !.exit = "ok"]]
    /\ UNCHANGED <<fs, dirs, env, viper, inv, fs0, last, overlap>>

\* where configCli.Run writes: line 100
ConfigTarget(fileName) == TestPath(fileName)

\* configCli.Run: viper.WriteConfigAs opens the target with O_CREATE|O_TRUNC
\* (no directory is made) and writes the marshalled AllSettings
ConfigRun(p) ==
    /\ proc[p].pc = "bound"
    /\ proc[p].cmd = "config"
    /\ LET fileName == GetString(viper[p], proc[p], GlobalKey("config"))
           target == ConfigTarget(fileName)
       IN  IF ParentDir(target) \in dirs
           THEN /\ fs' = Put(fs, target, Marshal(AllSettings(viper[p], proc[p])))
                /\ proc' = [proc EXCEPT ![p] =
                       [@ EXCEPT !.pc = "done", !.exit = "ok",
                                 !.fileName = fileName]]
           ELSE /\ fs' = fs
                /\ proc' = [proc EXCEPT ![p] =
                       [@ EXCEPT !.pc = "done", !.exit = "panic",
                                 !.fileName = fileName]]
    /\ FileStep(p)
    /\ UNCHANGED <<dirs, env, viper, inv, fs0, last>>

\* a map that holds context and nothing of what the file held
SetContextOnly(cfg, ctx) == GlobalKey("context") :> ctx

\* useContextCli.Run, line 71: the map read from the file with context set
SetContext(cfg, ctx) == Put(cfg, GlobalKey("context"), ctx)

\* the active context, the positional argument ignored
TargetContextNoArg(pr) == pr.context

\* useContextCli.Run, lines 45-48: the positional argument, else the context
TargetContext(pr) == IF pr.arg # Nil THEN pr.arg ELSE pr.context

\* useContextCli.Run, lines 50-77: open read-only, read, close, unmarshal,
\* set context, marshal; a missing or unparseable file panics
UseContextRead(p) ==
    /\ proc[p].pc = "bound"
    /\ proc[p].cmd = "use-context"
    /\ LET ctx == TargetContext(proc[p])
           fileName == GetString(viper[p], proc[p], GlobalKey("config"))
       IN  IF Exists(fileName) /\ Parseable(fs[fileName])
           THEN proc' = [proc EXCEPT ![p] =
                    [@ EXCEPT !.pc = "ucMarshalled", !.fileName = fileName,
                              !.marshal = Marshal(SetContext(
                                  Unmarshal(fs[fileName]), ctx))]]
           ELSE proc' = [proc EXCEPT ![p] =
                    [@ EXCEPT !.pc = "done", !.exit = "panic",
                              !.fileName = fileName]]
    /\ FileStep(p)
    /\ UNCHANGED <<fs, dirs, env, viper, inv, fs0, last>>

\* useContextCli.Run, line 79: OpenFile with O_CREATE|O_TRUNC|O_WRONLY empties
\* the file; the handle's offset is 0
UseContextOpen(p) ==
    /\ proc[p].pc = "ucMarshalled"
    /\ IF ParentDir(proc[p].fileName) \in dirs
       THEN /\ fs' = Put(fs, proc[p].fileName, <<>>)
            /\ proc' = [proc EXCEPT ![p] = [@ EXCEPT !.pc = "ucOpened"]]
       ELSE /\ fs' = fs
            /\ proc' = [proc EXCEPT ![p] = [@ EXCEPT !.pc = "done", !.exit = "panic"]]
    /\ FileStep(p)
    /\ UNCHANGED <<dirs, env, viper, inv, fs0, last>>

\* a write of data at offset 0 of a file that holds old: what lies beyond the
\* data stays
WriteAtStart(old, data) ==
    IF Len(data) >= Len(old) THEN data
    ELSE data \o SubSeq(old, Len(data) + 1, Len(old))

\* useContextCli.Run, lines 85-90: WriteString through the handle, Close
UseContextWrite(p) ==
    /\ proc[p].pc = "ucOpened"
    /\ fs' = Put(fs, proc[p].fileName,
                  WriteAtStart(fs[proc[p].fileName], proc[p].marshal))
    /\ proc' = [proc EXCEPT ![p] = [@ EXCEPT !.pc = "done", !.exit = "ok"]]
    /\ FileStep(p)
    /\ UNCHANGED <<dirs, env, viper, inv, fs0, last>>

\* the keys an invocation holds from a flag, the environment or a file, with
\* the values it resolved for them
ExplicitSettings(v, pr) ==
    [k \in {x \in Keys : \/ (x \in DOMAIN v.pflags /\ v.pflags[x] \in pr.changed)
                         \/ Getenv(EnvName(x)) # ""
                         \/ x \in DOMAIN v.config}
        |-> GetString(v, pr, k)]

Persists(c) == c \in {"use-context", "config"}

\* the process is gone; the next one starts from nothing but the disk
Exit(p) ==
    /\ proc[p].pc = "done"
    /\ last' = [cmd |-> proc[p].cmd, arg |-> proc[p].arg, exit |-> proc[p].exit,
                context |-> proc[p].context,
                settings |-> IF Persists(proc[p].cmd) /\ proc[p].exit = "ok"
                             THEN ExplicitSettings(viper[p], proc[p])
                             ELSE Empty]
    /\ proc' = [proc EXCEPT ![p] = IdleProc]
    /\ viper' = [viper EXCEPT ![p] = InitViper]
    /\ UNCHANGED <<fs, dirs, env, inv, fs0, overlap>>

Resolve(p) ==
    \/ ViperFirstPhaseEnv(p)
    \/ ViperFirstPhaseFiles(p)
    \/ Main(p)
    \/ CobraSecondPhaseFlags(p)
    \/ CobraSecondPhaseFile(p)
    \/ CobraSecondPhaseContext(p)
    \/ ViperSecondPhase(p)

UseContextRun(p) ==
    \/ UseContextRead(p)
    \/ UseContextOpen(p)
    \/ UseContextWrite(p)

\* invocations one after another, each started once the one before has gone
Next ==
    \/ /\ inv < MaxInv
       /\ \E g \in GlobalFlagChoices, c \in CommandLines : Launch(1, g, c)
    \/ Resolve(1)
    \/ RootRun(1)
    \/ VersionRun(1)
    \/ ConfigRun(1)
    \/ UseContextRun(1)
    \/ Exit(1)

Spec == Init /\ [][Next]_vars

-----------------------------------------------------------------------------
(* Two invocations at once *)

RaceFiles == {HomeFile, OtherFile, <<>>}

RaceProc(ctx) ==
    [IdleProc EXCEPT !.pc = "init", !.cmd = "use-context", !.arg = ctx,
                     !.exit = "running"]

\* the shell has started use-context a and use-context b together, on one
\* config file in the home directory
InitRace ==
    /\ \E f \in RaceFiles : fs = HomePath :> f
    /\ dirs = {".", "/etc/clh", ParentDir(HomePath)}
    /\ env \in {NoEnv, EnvSome}
    /\ proc = <<RaceProc("a"), RaceProc("b")>>
    /\ viper = <<InitViper, InitViper>>
    /\ inv = 2
    /\ fs0 = fs
    /\ last = NoLast
    /\ overlap = FALSE

\* nothing orders the steps of the two processes
NextRace == \E p \in {1, 2} : Resolve(p) \/ UseContextRun(p)

SpecRace == InitRace /\ [][NextRace]_vars

-----------------------------------------------------------------------------
(* The sources of one invocation, read off its command line, the            *)
(* environment and the files as they were when it started                   *)

FlagSource(p, key) ==
    IF key \in GlobalKeys THEN Get(proc[p].flags, key[2])
    ELSE IF key[1] = proc[p].context /\ key[2] \in {"endpoint", "secret_key"}
         THEN Get(proc[p].flags, key[2])
         ELSE Nil

EnvSource(key) == Get(env, EnvName(key))

FileSource(path, key) ==
    IF path \in DOMAIN fs0 /\ Parseable(fs0[path])
    THEN Get(Unmarshal(fs0[path]), key)
    ELSE Nil

ExplicitPath(p) ==
    IF "config" \in DOMAIN proc[p].flags THEN proc[p].flags["config"] ELSE ""

DiscoveredPath ==
    IF EtcPath \in DOMAIN fs0 THEN EtcPath
    ELSE IF HomePath \in DOMAIN fs0 THEN HomePath
    ELSE IF CwdPath \in DOMAIN fs0 THEN CwdPath
    ELSE ""

BuiltinDefault(p, key) ==
    CASE key = GlobalKey("log_level") -> "info"
      [] key = GlobalKey("context") -> "default"
      [] key = GlobalKey("config") ->
            IF ExplicitPath(p) # "" THEN ExplicitPath(p)
            ELSE IF DiscoveredPath # "" THEN DiscoveredPath
            ELSE HomePath
      [] key[2] = "endpoint" -> DefaultEndpoint
      [] OTHER -> ""

FirstOf(values) ==
    LET set == {i \in 1..Len(values) : values[i] # Nil}
    IN  values[CHOOSE i \in set : \A j \in set : i <= j]

\* the keys the precedence rule is stated for
ResolvedKeys(p) ==
    GlobalKeys \cup {Key(proc[p].context, "endpoint"),
                     Key(proc[p].context, "secret_key")}

Resolved(p, key) == GetString(viper[p], proc[p], key)

\* C1 as stated: after both phases every key resolves to the value of the
\* highest source present, in the order flag > explicit --config file >
\* discovered file > environment variable > built-in default.
C1_FileOverEnv ==
    \A p \in DOMAIN proc : proc[p].pc = "bound" =>
        \A k \in ResolvedKeys(p) :
            Resolved(p, k) =
                FirstOf(<< FlagSource(p, k), FileSource(ExplicitPath(p), k),
                           FileSource(DiscoveredPath, k), EnvSource(k),
                           BuiltinDefault(p, k) >>)

\* C1 amended: after both phases every key resolves to the value of the
\* highest source present, in the order flag > environment variable >
\* explicit --config file > discovered file > built-in default.
C1_EnvOverFile ==
    \A p \in DOMAIN proc : proc[p].pc = "bound" =>
        \A k \in ResolvedKeys(p) :
            Resolved(p, k) =
                FirstOf(<< FlagSource(p, k), EnvSource(k),
                           FileSource(ExplicitPath(p), k),
                           FileSource(DiscoveredPath, k),
                           BuiltinDefault(p, k) >>)

\* both phases are over and all four sources give a value to one key, no two
\* the same, and the environment's value is the one resolved
C1_Witness ==
    /\ proc[1].pc = "bound"
    /\ \E k \in ResolvedKeys(1) :
          /\ Cardinality({FlagSource(1, k), EnvSource(k),
                          FileSource(ExplicitPath(1), k),
                          FileSource(DiscoveredPath, k),
                          BuiltinDefault(1, k), Nil}) = 6
    /\ \E k \in ResolvedKeys(1) :
          /\ FlagSource(1, k) = Nil
          /\ EnvSource(k) # Nil
          /\ FileSource(DiscoveredPath, k) \notin {Nil, EnvSource(k)}
          /\ Resolved(1, k) = EnvSource(k)

-----------------------------------------------------------------------------
(* use-context and config *)

\* the process has run its command to the end without a panic
Completed(p, c) == proc[p].pc = "done" /\ proc[p].cmd = c /\ proc[p].exit = "ok"

\* the file at the resolved config path, as the command left it and as the
\* invocation found it
FileNow(p) == IF Exists(proc[p].fileName) THEN Unmarshal(fs[proc[p].fileName]) ELSE Empty
FileBefore(p) ==
    IF proc[p].fileName \in DOMAIN fs0 THEN Unmarshal(fs0[proc[p].fileName]) ELSE Empty

\* C2: use-context foo, then a fresh invocation without --context, resolves
\* the context to foo, whatever the config file held before, or if there
\* was none. (Stated where the environment sets neither CLH_CONTEXT nor
\* CLH_CONFIG.)
C2_NextInvocationUsesContext ==
    ( /\ proc[1].pc = "bound"
      /\ last.cmd = "use-context"
      /\ last.arg # Nil
      /\ "context" \notin DOMAIN proc[1].flags
      /\ EnvSource(GlobalKey("context")) = Nil
      /\ EnvSource(GlobalKey("config")) = Nil )
    => proc[1].context = last.arg

\* C3: with no config file in the three directories and no --config flag the
\* target is <home>/.clh/config.yaml, and once config has completed that
\* file and its directory exist. (Stated where the environment does not set
\* CLH_CONFIG.)
C3_ConfigCreatesHomeFile ==
    ( /\ Completed(1, "config")
      /\ DiscoveredPath = ""
      /\ "config" \notin DOMAIN proc[1].flags
      /\ EnvSource(GlobalKey("config")) = Nil )
    => /\ proc[1].fileName = HomePath
       /\ Exists(HomePath)
       /\ ParentDir(HomePath) \in dirs

\* C4: after config -e E -u U -k S -c C the persisted file holds C.endpoint =
\* E, C.username = U and C.secret_key = S, and the keys of every other
\* context are as they were in the file before.
C4_ConfigPersistsFlags ==
    ( /\ Completed(1, "config")
      /\ {"endpoint", "username", "secret_key", "context"} \subseteq DOMAIN proc[1].flags )
    => /\ \A f \in {"endpoint", "username", "secret_key"} :
             Get(FileNow(1), Key(proc[1].context, f)) = proc[1].flags[f]
       /\ \A c \in Contexts \ {proc[1].context}, f \in Fields :
             Get(FileNow(1), Key(c, f)) = Get(FileBefore(1), Key(c, f))

\* C5: once an invocation has persisted its store, the next one, with the
\* same context, the same environment and no flags, resolves every key the
\* first held from a flag, a file or the environment to the same value.
C5_RoundTrip ==
    ( /\ proc[1].pc = "bound"
      /\ Persists(last.cmd)
      /\ last.exit = "ok"
      /\ proc[1].flags = NoFlags
      /\ proc[1].context = last.context )
    => \A k \in DOMAIN last.settings : Resolved(1, k) = last.settings[k]

\* C7: once use-context or config has completed, the file at the resolved
\* config path holds the whole resolved store: every key of it with its
\* resolved value, those from flags and the environment included.
C7_WholeStorePersisted ==
    \A c \in {"use-context", "config"} :
        Completed(1, c) =>
            /\ Exists(proc[1].fileName)
            /\ \A k \in DOMAIN AllSettings(viper[1], proc[1]) :
                  Get(FileNow(1), k) = AllSettings(viper[1], proc[1])[k]

\* C10: once use-context has completed on a config file that parses, the
\* file differs from what it was in the key context alone, which holds the
\* name given, or the active context when none was; no key is added, and
\* no other file is touched.
C10_UseContextFrame ==
    Completed(1, "use-context") =>
        /\ Get(FileNow(1), GlobalKey("context")) =
              (IF proc[1].arg # Nil THEN proc[1].arg ELSE proc[1].context)
        /\ \A k \in (DOMAIN FileNow(1) \cup DOMAIN FileBefore(1)) \ {GlobalKey("context")} :
              Get(FileNow(1), k) = Get(FileBefore(1), k)
        /\ \A path \in (DOMAIN fs \cup DOMAIN fs0) \ {proc[1].fileName} :
              path \in DOMAIN fs /\ path \in DOMAIN fs0 /\ fs[path] = fs0[path]

\* use-context has completed on a file that held other keys and another
\* context, while the store held keys from the environment and a flag the
\* file does not hold
C10_Witness ==
    /\ Completed(1, "use-context")
    /\ Get(FileBefore(1), GlobalKey("context")) \notin {Nil, proc[1].arg}
    /\ Cardinality(DOMAIN FileBefore(1)) > 3
    /\ fs[proc[1].fileName] # fs0[proc[1].fileName]
    /\ Getenv(EnvName(GlobalKey("log_level"))) # ""
    /\ "log_level" \in proc[1].changed
    /\ \E k \in DOMAIN AllSettings(viper[1], proc[1]) : k \notin DOMAIN FileNow(1)

-----------------------------------------------------------------------------
(* setLogLevel *)

\* where a process stands right after each of the four calls of setLogLevel
LevelPoints == {"envBound", "filesMerged", "flagsLevel", "explicitMerged"}

LogLevelNow(p) == ParseLevel(Resolved(p, GlobalKey("log_level")))

\* C6 as stated: right after each of the four calls, a log_level that is no
\* level name has made DebugLevel the active level and an error diagnostic
\* has been logged, the invocation going on; a level name has made its level
\* the active one.
C6_FallbackAlwaysLogged ==
    \A p \in DOMAIN proc : proc[p].pc \in LevelPoints =>
        /\ LogLevelNow(p).ok => proc[p].level = LogLevelNow(p).level
        /\ ~LogLevelNow(p).ok =>
              /\ proc[p].level = "DebugLevel"
              /\ proc[p].errLogged
              /\ proc[p].exit = "running"

\* C6 amended: as stated, but the error diagnostic is logged only if the
\* level active before the call lets error messages through (it is neither
\* PanicLevel nor FatalLevel), which the first three calls always find and
\* the fourth need not.
C6_FallbackLoggedIfEnabled ==
    [][ \A p \in DOMAIN proc :
          (proc'[p].pc \in LevelPoints /\ proc'[p].pc # proc[p].pc) =>
             LET r == ParseLevel(GetString(viper'[p], proc'[p], GlobalKey("log_level")))
             IN  /\ r.ok => proc'[p].level = r.level /\ ~proc'[p].errLogged
                 /\ ~r.ok =>
                       /\ proc'[p].level = "DebugLevel"
                       /\ proc'[p].exit = "running"
                       /\ proc'[p].errLogged =
                             (proc[p].level \notin {"PanicLevel", "FatalLevel"})
                       /\ proc'[p].pc # "explicitMerged" => proc'[p].errLogged
      ]_vars

\* the fourth call found a log_level that is no level name while FatalLevel
\* was active, fell back to DebugLevel and logged nothing
C6_Witness ==
    /\ proc[1].pc = "explicitMerged"
    /\ ~LogLevelNow(1).ok
    /\ proc[1].level = "DebugLevel"
    /\ ~proc[1].errLogged

\* the third call found --log_level=bogus, fell back and logged the error
C6_WitnessFlag ==
    /\ proc[1].pc = "flagsLevel"
    /\ Get(proc[1].flags, "log_level") = "bogus"
    /\ proc[1].level = "DebugLevel"
    /\ proc[1].errLogged

-----------------------------------------------------------------------------
(* The active context *)

AfterResolve == {"contextResolved", "bound", "ucMarshalled", "ucOpened", "done"}
AfterBind == AfterResolve \ {"contextResolved"}

\* the scoped keys viper holds a flag or a default for
ScopedBound(v) == {k \in DOMAIN v.pflags : k[1] # ""}
ScopedDefaults(v) == {k \in DOMAIN v.defaults : k[1] # ""}

\* the context the sources call for
ConfiguredContext(p) ==
    FirstOf(<< Get(proc[p].flags, "context"),
               EnvSource(GlobalKey("context")),
               FileSource(ExplicitPath(p), GlobalKey("context")),
               FileSource(DiscoveredPath, GlobalKey("context")),
               "default" >>)

\* C8: the active context is settled once, after the environment, the
\* discovered file, the flags and the --config file have been merged and
\* before any scoped key is bound; it is the --context flag's value, else
\* the configured context, else "default"; from then on it does not change,
\* and the endpoint and secret_key flags and the default endpoint are bound
\* under that context and under no other.
C8_ContextResolvedOnce ==
    [][ \A p \in DOMAIN proc :
          /\ proc'[p].pc \notin AfterBind =>
                ScopedBound(viper'[p]) = {} /\ ScopedDefaults(viper'[p]) = {}
          /\ proc'[p].pc \in AfterResolve =>
                proc'[p].context = ConfiguredContext(p)'
          /\ proc'[p].pc \in AfterBind =>
                /\ ScopedBound(viper'[p]) =
                      {Key(proc'[p].context, "endpoint"),
                       Key(proc'[p].context, "secret_key")}
                /\ ScopedDefaults(viper'[p]) = {Key(proc'[p].context, "endpoint")}
                /\ viper'[p].defaults[Key(proc'[p].context, "endpoint")] = DefaultEndpoint
          /\ (proc[p].pc \in AfterResolve /\ proc'[p].pc \in AfterResolve) =>
                proc'[p].context = proc[p].context
      ]_vars

\* no --context was given, the --config file names context c while the
\* discovered file names d, and the keys are bound under c
C8_Witness ==
    /\ proc[1].pc = "bound"
    /\ "context" \notin DOMAIN proc[1].flags
    /\ FileSource(DiscoveredPath, GlobalKey("context")) = "d"
    /\ proc[1].context = "c"
    /\ Key("c", "endpoint") \in DOMAIN viper[1].pflags

-----------------------------------------------------------------------------
(* Concurrent use-context *)

BothDone == \A p \in DOMAIN proc : proc[p].pc = "done" /\ proc[p].exit = "ok"

\* what use-context x leaves of the file the two invocations found, run
\* alone or after the other
SerialOutcome(x) == Marshal(Put(Unmarshal(fs0[HomePath]), GlobalKey("context"), x))

====
